---------------------------- MODULE Spec2Model ----------------------------
(***************************************************************************)
(* State-machine model of KonWski/SiameseMolNet:                           *)
(*   CrossSiameseNet/datasets/cf_datasets.py  (MolDataset,                 *)
(*       MolDatasetTriplet, get_dataset)                                   *)
(*   CrossSiameseNet/train_new.py             (train_triplet)              *)
(*                                                                         *)
(* Conventions.  Python indices are 0-based and are kept 0-based here; a   *)
(* tensor / array is a TLA+ sequence read with At(s, i) == s[i + 1].  The  *)
(* fingerprint of the k-th molecule of the input dataset is the number k   *)
(* (so a replicated record is recognisable), its smiles id likewise.       *)
(* Python's bool is a subclass of int, so flags that the code tests for    *)
(* truthiness are integers (True = 1, False = 0) wherever the code can be  *)
(* handed something else than a bool.                                      *)
(***************************************************************************)
EXTENDS Integers, Sequences, FiniteSets, TLC

(***************************************************************************)
(* Bounds of the model.                                                    *)
(***************************************************************************)
MaxLen == 3
MaxSplit == 2
MaxZeros == 5
MaxOnes == 3
MaxSeed == 1
MaxEpochs == 3
MaxBatches == 1

(***************************************************************************)
(* Python values.                                                          *)
(***************************************************************************)
\* None, where the code expects an int (numpy accepts no negative seed, so
\* -1 is free to stand for it)
None == -1

Truthy(v) == v # 0 /\ v # None

NoError == "none"

(***************************************************************************)
(* Tensors and arrays.                                                     *)
(***************************************************************************)
At(s, i) == s[i + 1]

\* (t == v).nonzero()[:,0].tolist(): the ascending indices holding v
Nonzero(t, v) ==
    SelectSeq([k \in 1..Len(t) |-> k - 1], LAMBDA i : At(t, i) = v)

\* t[indices]: indexing with a list of indices
Take(t, indices) == [k \in 1..Len(indices) |-> At(t, At(indices, k - 1))]

\* torch.cat([t for i in range(m)]), for m >= 1
RECURSIVE CatCopies(_, _)
CatCopies(t, m) == IF m <= 0 THEN <<>> ELSE t \o CatCopies(t, m - 1)

\* (mutant: the quotient rounded up)
FloorDiv_rounded_up(a, b) == (a + b - 1) \div b

\* int(a / b) for a >= 0, b > 0
FloorDiv(a, b) == a \div b

(***************************************************************************)
(* numpy.random.RandomState.  The Mersenne Twister is replaced by a small  *)
(* full-period linear congruential generator: what the model keeps is that *)
(* the stream is a function of the seed, that RandomState(None) starts     *)
(* from operating-system entropy, and that choice(a) consumes one step and *)
(* returns a member of a.                                                  *)
(***************************************************************************)
RngStates == 0..7

RandomState(seed, entropy) == IF seed = None THEN entropy ELSE seed % 8

RngStep(rs) == (5 * rs + 3) % 8

RngChoice(rs, a) == At(a, rs % Len(a))

(***************************************************************************)
(* The input: a DeepChem dataset (X, y, ids).  y is the label column;      *)
(* ids_kind is the type of the ids attribute: DeepChem hands out a numpy   *)
(* array ("ndarray"); the wrapper itself only requires len() and list      *)
(* indexing of it, which a torch tensor ("tensor") offers as well.         *)
(***************************************************************************)
RECURSIVE LabelSeqs(_)
LabelSeqs(n) ==
    IF n = 0 THEN {<<>>}
    ELSE LET shorter == LabelSeqs(n - 1)
         IN  shorter \cup {Append(s, b) : s \in {t \in shorter : Len(t) = n - 1},
                                          b \in {0, 1}}

\* z zero-labelled records followed by o one-labelled records
Block(z, o) == [k \in 1..(z + o) |-> IF k <= z THEN 0 ELSE 1]

\* every label column of at most MaxLen records, and the larger columns of
\* up to MaxZeros zeros followed by up to MaxOnes ones
LabelColumns ==
    LabelSeqs(MaxLen) \cup {Block(z, o) : z \in 0..MaxZeros, o \in 0..MaxOnes}

IdsKinds == {"ndarray", "tensor"}

DcDatasets == {[y |-> ys, ids_kind |-> k] : ys \in LabelColumns, k \in IdsKinds}

Count(ys, v) == Len(Nonzero(ys, v))

(***************************************************************************)
(* Values held by the fixed-triplet cache: a tensor (indexable) or a plain *)
(* Python float (not indexable).                                           *)
(***************************************************************************)
Tensor(v) == [kind |-> "tensor", v |-> v]

Float(v) == [kind |-> "float", v |-> v]

(***************************************************************************)
(* MolDataset.__init__ : the object after lines 23-26.  The attributes     *)
(* that MolDatasetTriplet adds are listed as absent.                       *)
(***************************************************************************)
MolDataset__init__(dc_ds) ==
    [X |-> [k \in 1..Len(dc_ds.y) |-> k],
     y |-> dc_ds.y,
     smiles |-> [k \in 1..Len(dc_ds.y) |-> k],
     smiles_kind |-> dc_ds.ids_kind,
     n_molecules |-> Len(dc_ds.y),
     train |-> 0, oversample |-> 0, use_fixed_triplets |-> 0,
     seed_fixed_triplets |-> None,
     has_indices |-> FALSE, indices_0 |-> <<>>, indices_1 |-> <<>>,
     has_fixed_triplets |-> FALSE, fixed_triplets |-> <<>>]

\* MolDataset.__len__
MolDataset__len__(self) == self.n_molecules

(***************************************************************************)
(* MolDatasetTriplet.__get_fixed_dataset.  FixedLoop is the for loop of    *)
(* lines 134-144 from record k on, with the generator in state rs and the  *)
(* index lists drawn so far; anchor_label is the loop variable, which the  *)
(* return statement reads after the loop.                                  *)
(***************************************************************************)
RECURSIVE FixedLoop(_, _, _, _, _, _)
FixedLoop(self, k, rs, positive_indices, negative_indices, anchor_label) ==
    IF k = Len(self.y)
    THEN [raised |-> NoError, positive_indices |-> positive_indices,
          negative_indices |-> negative_indices, anchor_label |-> anchor_label]
    ELSE LET label == At(self.y, k)
             same == IF label = 1 THEN self.indices_1 ELSE self.indices_0
             opposite == IF label = 1 THEN self.indices_0 ELSE self.indices_1
         IN  IF Len(same) = 0
             THEN [raised |-> "ValueError", positive_indices |-> positive_indices,
                   negative_indices |-> negative_indices, anchor_label |-> label]
             ELSE IF Len(opposite) = 0
             THEN [raised |-> "ValueError",
                   positive_indices |-> Append(positive_indices, RngChoice(rs, same)),
                   negative_indices |-> negative_indices, anchor_label |-> label]
             ELSE FixedLoop(self, k + 1, RngStep(RngStep(rs)),
                            Append(positive_indices, RngChoice(rs, same)),
                            Append(negative_indices, RngChoice(RngStep(rs), opposite)),
                            label)

get_fixed_dataset(self, entropy) ==
    LET loop == FixedLoop(self, 0, RandomState(self.seed_fixed_triplets, entropy),
                          <<>>, <<>>, None)
    IN  IF loop.raised # NoError
        THEN [raised |-> loop.raised, value |-> <<>>,
              positive_indices |-> loop.positive_indices,
              negative_indices |-> loop.negative_indices]
        ELSE IF Len(self.y) = 0
        THEN [raised |-> "UnboundLocalError", value |-> <<>>,
              positive_indices |-> <<>>, negative_indices |-> <<>>]
        ELSE [raised |-> NoError,
              value |-> <<Tensor(self.X),
                          Tensor(Take(self.X, loop.positive_indices)),
                          Tensor(Take(self.X, loop.negative_indices)),
                          Float(loop.anchor_label)>>,
              positive_indices |-> loop.positive_indices,
              negative_indices |-> loop.negative_indices]

(***************************************************************************)
(* MolDatasetTriplet.__init__ (lines 48-96).  The result is the exception  *)
(* raised ("none" when the constructor returns) and the object as the      *)
(* constructor left it.                                                    *)
(***************************************************************************)
InitOversample(self0, indices_0, indices_1) ==
    IF Len(indices_1) = 0
    THEN [raised |-> "ZeroDivisionError", self |-> self0]
    ELSE
    LET oversampling_multiplicator == FloorDiv(Len(indices_0), Len(indices_1))
        X_0 == Take(self0.X, indices_0)
        X_1 == Take(self0.X, indices_1)
        y_0 == Take(self0.y, indices_0)
        y_1 == Take(self0.y, indices_1)
        smiles_0 == Take(self0.smiles, indices_0)
        smiles_1 == Take(self0.smiles, indices_1)
        new_y == y_0 \o CatCopies(y_1, oversampling_multiplicator)
    IN  \* torch.cat of an empty list of tensors (lines 71-73)
        IF oversampling_multiplicator = 0
        THEN [raised |-> "RuntimeError", self |-> self0]
        \* torch.cat of numpy arrays (line 73)
        ELSE IF self0.smiles_kind # "tensor"
        THEN [raised |-> "TypeError", self |-> self0]
        ELSE [raised |-> NoError,
              self |-> [self0 EXCEPT
                  !.X = X_0 \o CatCopies(X_1, oversampling_multiplicator),
                  !.y = new_y,
                  !.smiles = smiles_0 \o CatCopies(smiles_1, oversampling_multiplicator),
                  !.has_indices = TRUE,
                  !.indices_0 = Nonzero(new_y, 0),
                  !.indices_1 = Nonzero(new_y, 1)]]

InitFixed(self0, indices_0, indices_1, entropy) ==
    LET self1 == [self0 EXCEPT !.has_indices = TRUE,
                               !.indices_0 = indices_0,
                               !.indices_1 = indices_1]
        fixed == get_fixed_dataset(self1, entropy)
    IN  IF fixed.raised # NoError
        THEN [raised |-> fixed.raised, self |-> self1]
        ELSE [raised |-> NoError,
              self |-> [self1 EXCEPT !.has_fixed_triplets = TRUE,
                                     !.fixed_triplets = fixed.value]]

\* (mutant: the combination is not checked)
ConfigError_unchecked(oversample, use_fixed_triplets) == FALSE

\* the combination line 87 rejects
ConfigError(oversample, use_fixed_triplets) ==
    Truthy(oversample) /\ Truthy(use_fixed_triplets)

MolDatasetTriplet__init__(dc_ds, train, oversample, use_fixed_triplets, seed_fixed_triplets, entropy) ==
    LET self0 == [MolDataset__init__(dc_ds) EXCEPT
                      !.train = train,
                      !.oversample = oversample,
                      !.use_fixed_triplets = use_fixed_triplets,
                      !.seed_fixed_triplets = seed_fixed_triplets]
        indices_0 == Nonzero(self0.y, 0)
        indices_1 == Nonzero(self0.y, 1)
    IN  IF Truthy(oversample) /\ ~Truthy(use_fixed_triplets)
        THEN InitOversample(self0, indices_0, indices_1)
        ELSE IF ~Truthy(oversample) /\ ~Truthy(use_fixed_triplets)
        THEN [raised |-> NoError,
              self |-> [self0 EXCEPT !.has_indices = TRUE,
                                     !.indices_0 = indices_0,
                                     !.indices_1 = indices_1]]
        ELSE IF ConfigError(oversample, use_fixed_triplets)
        THEN [raised |-> "Exception", self |-> self0]
        ELSE IF Truthy(use_fixed_triplets)
        THEN InitFixed(self0, indices_0, indices_1, entropy)
        ELSE [raised |-> NoError, self |-> self0]

(***************************************************************************)
(* MolDatasetTriplet.__getitem__ (lines 99-122) for the drawn indices      *)
(* positive_index and negative_index of random.choice (line 108-113);      *)
(* the draws are used on the sampling path only.                           *)
(***************************************************************************)
\* obj[id0] of line 119-120: a float has no __getitem__
Subscript(obj, id0) ==
    IF obj.kind = "tensor"
    THEN [raised |-> NoError, value |-> At(obj.v, id0)]
    ELSE [raised |-> "TypeError", value |-> None]

\* (mutant: the positive is drawn from the other partition)
PositivePartition_swapped(self, anchor_label) ==
    IF anchor_label = 1 THEN self.indices_0 ELSE self.indices_1

\* the partition random.choice draws the positive / the negative from
PositivePartition(self, anchor_label) ==
    IF anchor_label = 1 THEN self.indices_1 ELSE self.indices_0

NegativePartition(self, anchor_label) ==
    IF anchor_label = 1 THEN self.indices_0 ELSE self.indices_1

\* the branch of line 101
SamplesOnAccess(self) == ~Truthy(self.use_fixed_triplets) /\ self.train = 0

GetSampled(self, id0, positive_index, negative_index) ==
    [raised |-> NoError,
     value |-> <<At(self.X, id0), At(self.X, positive_index),
                 At(self.X, negative_index), At(self.y, id0)>>]

GetCached(self, id0) ==
    IF ~self.has_fixed_triplets
    THEN [raised |-> "AttributeError", value |-> <<>>]
    ELSE LET anchor_mf == Subscript(self.fixed_triplets[1], id0)
             positive_mf == Subscript(self.fixed_triplets[2], id0)
             negative_mf == Subscript(self.fixed_triplets[3], id0)
             anchor_label == Subscript(self.fixed_triplets[4], id0)
             parts == <<anchor_mf, positive_mf, negative_mf, anchor_label>>
             bad == {k \in 1..4 : parts[k].raised # NoError}
         IN  IF bad # {}
             THEN [raised |-> parts[CHOOSE k \in bad : \A j \in bad : k <= j].raised,
                   value |-> <<>>]
             ELSE [raised |-> NoError,
                   value |-> <<anchor_mf.value, positive_mf.value,
                               negative_mf.value, anchor_label.value>>]

\* random.choice(a): the values a draw can give (None: a is empty and the
\* draw raises IndexError)
Range(a) == {a[k] : k \in 1..Len(a)}

ChoiceSet(a) == IF Len(a) = 0 THEN {None} ELSE Range(a)

MolDatasetTriplet__getitem__(self, id0, positive_index, negative_index) ==
    IF SamplesOnAccess(self)
    THEN IF positive_index = None \/ negative_index = None
         THEN [raised |-> "IndexError", value |-> <<>>]
         ELSE GetSampled(self, id0, positive_index, negative_index)
    ELSE GetCached(self, id0)

(***************************************************************************)
(* MolDatasetTriplet.refresh_fixed_triplets (lines 156-158): the seed is   *)
(* stored before the cache is rebuilt.                                     *)
(***************************************************************************)
\* (mutant: the cache is rebuilt from the new seed, which is not stored)
refresh_fixed_triplets_seed_not_stored(self, seed_fixed_triplets, entropy) ==
    LET fixed == get_fixed_dataset(
                     [self EXCEPT !.seed_fixed_triplets = seed_fixed_triplets],
                     entropy)
    IN  IF fixed.raised # NoError
        THEN [raised |-> fixed.raised, self |-> self, fixed |-> fixed]
        ELSE [raised |-> NoError,
              self |-> [self EXCEPT !.has_fixed_triplets = TRUE,
                                    !.fixed_triplets = fixed.value],
              fixed |-> fixed]

refresh_fixed_triplets(self, seed_fixed_triplets, entropy) ==
    LET self1 == [self EXCEPT !.seed_fixed_triplets = seed_fixed_triplets]
        fixed == get_fixed_dataset(self1, entropy)
    IN  IF fixed.raised # NoError
        THEN [raised |-> fixed.raised, self |-> self1, fixed |-> fixed]
        ELSE [raised |-> NoError,
              self |-> [self1 EXCEPT !.has_fixed_triplets = TRUE,
                                     !.fixed_triplets = fixed.value],
              fixed |-> fixed]

(***************************************************************************)
(* State.                                                                  *)
(*   pc          position of the client of one MolDatasetTriplet: "new",   *)
(*               "ready" (between calls), "returned" (a call has just      *)
(*               ended, call holds its outcome), "raised" (the constructor *)
(*               raised: there is no object)                               *)
(*   args        the arguments its constructor was called with             *)
(*   self        the MolDatasetTriplet object                              *)
(*   call        the last call on it: method, argument, exception raised,  *)
(*               value returned and, for __getitem__, the indices drawn    *)
(*   gen         the locals positive_indices / negative_indices of the     *)
(*               last __get_fixed_dataset that returned                    *)
(*   factory     one call of get_dataset: its arguments and its outcome    *)
(*   targs       the arguments of one call of train_triplet                *)
(*   tl          the locals of train_triplet and its position              *)
(*   events      what train_triplet has done to its collaborators so far   *)
(***************************************************************************)
VARIABLES pc, args, self, call, gen, factory, targs, tl, events

vars == <<pc, args, self, call, gen, factory, targs, tl, events>>

Flags == {0, 1}

Seeds == {None} \cup (0..MaxSeed)

NoArgs ==
    [dc_dataset |-> [y |-> <<>>, ids_kind |-> "ndarray"], train |-> 0,
     oversample |-> 0, use_fixed_triplets |-> 0, seed_fixed_triplets |-> None]

NoCall ==
    [op |-> "none", id0 |-> None, raised |-> NoError, value |-> <<>>,
     positive_index |-> None, negative_index |-> None]

NoGen == [done |-> FALSE, positive_indices |-> <<>>, negative_indices |-> <<>>]

GenOf(fixed) ==
    [done |-> TRUE, positive_indices |-> fixed.positive_indices,
     negative_indices |-> fixed.negative_indices]

\* the entropy RandomState reads: only when it is seeded with None
Entropy(seed) == IF seed = None THEN RngStates ELSE {0}

NoFactory == [pc |-> "idle"]

NoTrainArgs == [n_epochs |-> 0]

NoTrainLocals == [pc |-> "idle"]

\* what an action on the dataset alone leaves unchanged
DatasetOnly == UNCHANGED <<factory, targs, tl, events>>

Init ==
    /\ pc = "new"
    /\ args = NoArgs
    /\ self = MolDataset__init__(NoArgs.dc_dataset)
    /\ call = NoCall
    /\ gen = NoGen
    /\ factory = NoFactory
    /\ targs = NoTrainArgs
    /\ tl = NoTrainLocals
    /\ events = <<>>

\* dataset = MolDatasetTriplet(dc_dataset, train, oversample, use_fixed_triplets, seed)
Construct ==
    /\ pc = "new"
    /\ \E dc_ds \in DcDatasets, train \in Flags, oversample \in Flags,
          use_fixed_triplets \in Flags, seed \in Seeds :
         \E entropy \in Entropy(IF Truthy(use_fixed_triplets) /\ ~Truthy(oversample)
                                THEN seed ELSE 0) :
           LET r == MolDatasetTriplet__init__(dc_ds, train, oversample,
                                              use_fixed_triplets, seed, entropy)
           IN  /\ args' = [dc_dataset |-> dc_ds, train |-> train,
                           oversample |-> oversample,
                           use_fixed_triplets |-> use_fixed_triplets,
                           seed_fixed_triplets |-> seed]
               /\ self' = r.self
               /\ pc' = IF r.raised = NoError THEN "returned" ELSE "raised"
               /\ call' = [NoCall EXCEPT !.op = "__init__", !.raised = r.raised]
               /\ gen' = IF r.self.has_fixed_triplets
                         THEN GenOf(get_fixed_dataset(r.self, entropy))
                         ELSE NoGen
    /\ DatasetOnly

\* dataset[id0]
GetItem ==
    /\ pc = "ready"
    /\ \E id0 \in 0..(Len(self.X) - 1) :
         LET anchor_label == At(self.y, id0)
             ps == IF SamplesOnAccess(self)
                   THEN ChoiceSet(PositivePartition(self, anchor_label)) ELSE {None}
             ns == IF SamplesOnAccess(self)
                   THEN ChoiceSet(NegativePartition(self, anchor_label)) ELSE {None}
         IN  \E positive_index \in ps, negative_index \in ns :
               LET r == MolDatasetTriplet__getitem__(self, id0, positive_index,
                                                     negative_index)
               IN  call' = [op |-> "__getitem__", id0 |-> id0, raised |-> r.raised,
                            value |-> r.value, positive_index |-> positive_index,
                            negative_index |-> negative_index]
    /\ pc' = "returned"
    /\ UNCHANGED <<args, self, gen>>
    /\ DatasetOnly

\* len(dataset)
GetLen ==
    /\ pc = "ready"
    /\ call' = [NoCall EXCEPT !.op = "__len__", !.value = <<MolDataset__len__(self)>>]
    /\ pc' = "returned"
    /\ UNCHANGED <<args, self, gen>>
    /\ DatasetOnly

\* dataset.refresh_fixed_triplets(seed)
Refresh ==
    /\ pc = "ready"
    /\ \E seed \in Seeds : \E entropy \in Entropy(seed) :
         LET r == refresh_fixed_triplets(self, seed, entropy)
         IN  /\ self' = r.self
             /\ call' = [NoCall EXCEPT !.op = "refresh_fixed_triplets",
                                       !.id0 = seed, !.raised = r.raised]
             /\ gen' = IF r.raised = NoError THEN GenOf(r.fixed) ELSE gen
    /\ pc' = "returned"
    /\ UNCHANGED args
    /\ DatasetOnly

\* the caller takes the result of the call (or catches its exception) and
\* goes on using the dataset
Return ==
    /\ pc = "returned"
    /\ pc' = "ready"
    /\ call' = NoCall
    /\ UNCHANGED <<args, self, gen>>
    /\ DatasetOnly

Next == Construct \/ GetItem \/ GetLen \/ Refresh \/ Return

Spec == Init /\ [][Next]_vars

(***************************************************************************)
(* get_dataset (lines 161-212).  loaded is what the DeepChem loader        *)
(* returns for the name: the three splits when a splitter is given.        *)
(***************************************************************************)
DatasetNames == {"hiv", "delaney", "lipo", "freesolv", "tox21_NR-AR", "bace"}

\* the loader lines 179-193 pick ("none": no branch matches the name)
Loader(dataset_name) ==
    CASE dataset_name = "hiv" -> "load_hiv"
      [] dataset_name = "delaney" -> "load_delaney"
      [] dataset_name = "lipo" -> "load_lipo"
      [] dataset_name = "freesolv" -> "load_freesolv"
      [] dataset_name = "tox21_NR-AR" -> "load_tox21"
      [] OTHER -> "none"

NoDataset == MolDataset__init__(NoArgs.dc_dataset)

FactoryResult(raised, returns, train_dataset, valid_dataset, test_dataset) ==
    [raised |-> raised, returns |-> returns, train_dataset |-> train_dataset,
     valid_dataset |-> valid_dataset, test_dataset |-> test_dataset]

\* lines 199-201: the three constructor calls, in order
WrapTriplets(loaded, oversample, use_fixed_train_triplets, seed_fixed_train_triplets, entropy) ==
    LET train_dataset == MolDatasetTriplet__init__(loaded[1], 1, oversample,
                             use_fixed_train_triplets, seed_fixed_train_triplets,
                             entropy)
        valid_dataset == MolDatasetTriplet__init__(loaded[2], 0, 1, 123, None,
                                                   entropy)
        test_dataset == MolDatasetTriplet__init__(loaded[3], 0, 1, 123, None,
                                                  entropy)
    IN  IF train_dataset.raised # NoError
        THEN FactoryResult(train_dataset.raised, "nothing", NoDataset, NoDataset,
                           NoDataset)
        ELSE IF valid_dataset.raised # NoError
        THEN FactoryResult(valid_dataset.raised, "nothing", train_dataset.self,
                           NoDataset, NoDataset)
        ELSE IF test_dataset.raised # NoError
        THEN FactoryResult(test_dataset.raised, "nothing", train_dataset.self,
                           valid_dataset.self, NoDataset)
        ELSE FactoryResult(NoError, "triplet datasets", train_dataset.self,
                           valid_dataset.self, test_dataset.self)

get_dataset(dataset_name, splitter, triplet_loss, oversample, use_fixed_train_triplets, seed_fixed_train_triplets, loaded, entropy) ==
    IF Truthy(use_fixed_train_triplets) /\ ~Truthy(triplet_loss)
    THEN FactoryResult(NoError, "None", NoDataset, NoDataset, NoDataset)
    ELSE IF Loader(dataset_name) = "none"
    THEN FactoryResult("UnboundLocalError", "nothing", NoDataset, NoDataset,
                       NoDataset)
    ELSE IF splitter
    THEN IF Truthy(triplet_loss)
         THEN WrapTriplets(loaded, oversample, use_fixed_train_triplets,
                           seed_fixed_train_triplets, entropy)
         ELSE FactoryResult(NoError, "pair datasets", MolDataset__init__(loaded[1]),
                            MolDataset__init__(loaded[2]),
                            MolDataset__init__(loaded[3]))
    ELSE FactoryResult(NoError, "raw dataset", NoDataset, NoDataset, NoDataset)

\* the splits a loader can return: DeepChem datasets (ids in a numpy array)
\* of at most MaxSplit records each
Splits == {[y |-> ys, ids_kind |-> "ndarray"] : ys \in LabelSeqs(MaxSplit)}

InitFactory ==
    /\ pc = "factory"
    /\ args = NoArgs
    /\ self = NoDataset
    /\ call = NoCall
    /\ gen = NoGen
    /\ factory = [pc |-> "start"]
    /\ targs = NoTrainArgs
    /\ tl = NoTrainLocals
    /\ events = <<>>

\* one call of get_dataset
GetDataset ==
    /\ factory.pc = "start"
    /\ \E dataset_name \in DatasetNames, splitter \in BOOLEAN, triplet_loss \in Flags,
          oversample \in Flags, use_fixed_train_triplets \in Flags,
          seed_fixed_train_triplets \in Seeds,
          loaded \in Splits \X Splits \X Splits :
         \E entropy \in Entropy(IF Truthy(use_fixed_train_triplets)
                                THEN seed_fixed_train_triplets ELSE 0) :
           factory' =
               [pc |-> "returned",
                dataset_name |-> dataset_name, splitter |-> splitter,
                triplet_loss |-> triplet_loss, oversample |-> oversample,
                use_fixed_train_triplets |-> use_fixed_train_triplets,
                seed_fixed_train_triplets |-> seed_fixed_train_triplets,
                loaded |-> loaded,
                result |-> get_dataset(dataset_name, splitter, triplet_loss,
                               oversample, use_fixed_train_triplets,
                               seed_fixed_train_triplets, loaded, entropy)]
    /\ UNCHANGED <<pc, args, self, call, gen, targs, tl, events>>

NextFactory == GetDataset

SpecFactory == InitFactory /\ [][NextFactory]_vars

(***************************************************************************)
(* train_triplet (train_new.py).  The model, the optimizer, the batch      *)
(* shaper, the loss, the two data loaders (with the datasets behind them), *)
(* save_checkpoint and pandas are collaborators: each call of one either   *)
(* returns or raises, and every batch contributes a loss of 1.  What the   *)
(* loop does to them is appended to events:                                *)
(*   refresh     train_loader.dataset.refresh_fixed_triplets(arg)          *)
(*   train       the train pass of an epoch has begun (lines 41-43)        *)
(*   test        the test pass of an epoch has begun (line 46)             *)
(*   checkpoint  save_checkpoint(checkpoint, path)                         *)
(*   report      report_df.to_excel(...)                                   *)
(***************************************************************************)
Event(kind, epoch, arg, path, train_loss, test_loss) ==
    [kind |-> kind, epoch |-> epoch, arg |-> arg, path |-> path,
     train_loss |-> train_loss, test_loss |-> test_loss]

\* (mutant: the path is not keyed by the epoch)
CheckpointPath_without_epoch(dataset_name, epoch) == <<dataset_name, 0>>

\* line 84: f"{checkpoints_dir}/{dataset_name}_{epoch}"
CheckpointPath(dataset_name, epoch) == <<dataset_name, epoch>>

\* line 34: the seed handed to refresh_fixed_triplets (None + int raises)
RefreshSeed(dataset, epoch) ==
    IF dataset.seed_fixed_triplets = None
    THEN [raised |-> "TypeError", value |-> None]
    ELSE [raised |-> NoError, value |-> dataset.seed_fixed_triplets + epoch]

\* line 33
RefreshDue(epoch, use_fixed_training_triplets) ==
    epoch > 0 /\ Truthy(use_fixed_training_triplets)

\* lines 48-64 of one pass over a loader of n batches: batch_id is assigned by
\* the for statement only if the loader yields a batch
PassLoss(n, batch_id) ==
    LET running_loss == n
        last_batch_id == IF n > 0 THEN n - 1 ELSE batch_id
    IN  IF last_batch_id = None
        THEN [raised |-> "NameError", batch_id |-> last_batch_id, epoch_loss |-> 0]
        ELSE [raised |-> NoError, batch_id |-> last_batch_id,
              epoch_loss |-> running_loss \div (last_batch_id + 1)]

\* the datasets a train loader can stand on: the MolDatasetTriplet objects
\* whose construction succeeds
TrainDatasets ==
    {r.self : r \in
        {q \in {MolDatasetTriplet__init__([y |-> ys, ids_kind |-> "ndarray"], 1, 0,
                                          fixed, seed, 0) :
                    ys \in LabelSeqs(MaxSplit), fixed \in Flags, seed \in Seeds} :
            q.raised = NoError}}

Raise(locals, exception, by_collaborator) ==
    [locals EXCEPT !.pc = "raised", !.raised = exception,
                   !.by_collaborator = by_collaborator]

TrainOnly == UNCHANGED <<pc, args, call, gen, factory>>

InitTrain ==
    /\ pc = "training"
    /\ args = NoArgs
    /\ self \in TrainDatasets
    /\ call = NoCall
    /\ gen = NoGen
    /\ factory = NoFactory
    /\ targs \in [dataset_name : {"hiv"},
                  n_epochs : 0..MaxEpochs,
                  use_fixed_training_triplets : Flags,
                  train_batches : 0..MaxBatches,
                  test_batches : 0..MaxBatches,
                  original_seed : {self.seed_fixed_triplets}]
    /\ tl = [pc |-> "start", epoch |-> 0, batch_id |-> None, train_loss |-> <<>>,
             test_loss |-> <<>>, raised |-> NoError, by_collaborator |-> FALSE]
    /\ events = <<>>

\* lines 17-26
Setup ==
    /\ tl.pc = "start"
    /\ tl' = IF Len(self.indices_1) = 0
             THEN Raise(tl, "ZeroDivisionError", FALSE)
             ELSE [tl EXCEPT !.pc = "epoch"]
    /\ UNCHANGED <<self, targs, events>>
    /\ TrainOnly

\* lines 28-34: the head of an epoch that needs no refresh
EpochBegin ==
    /\ tl.pc = "epoch"
    /\ tl.epoch < targs.n_epochs
    /\ ~RefreshDue(tl.epoch, targs.use_fixed_training_triplets)
    /\ tl' = [tl EXCEPT !.pc = "train"]
    /\ UNCHANGED <<self, targs, events>>
    /\ TrainOnly

\* lines 28-34: the head of an epoch that refreshes the training triplets
EpochBeginRefresh ==
    /\ tl.pc = "epoch"
    /\ tl.epoch < targs.n_epochs
    /\ RefreshDue(tl.epoch, targs.use_fixed_training_triplets)
    /\ LET seed == RefreshSeed(self, tl.epoch)
       IN  IF seed.raised # NoError
           THEN /\ tl' = Raise(tl, seed.raised, FALSE)
                /\ UNCHANGED <<self, events>>
           ELSE LET r == refresh_fixed_triplets(self, seed.value, 0)
                IN  /\ self' = r.self
                    /\ events' = Append(events, Event("refresh", tl.epoch,
                                            seed.value, <<>>, <<>>, <<>>))
                    /\ tl' = IF r.raised # NoError
                             THEN Raise(tl, r.raised, TRUE)
                             ELSE [tl EXCEPT !.pc = "train"]
    /\ UNCHANGED targs
    /\ TrainOnly

\* lines 36-73 with state = "train"
TrainPass ==
    /\ tl.pc = "train"
    /\ LET pass == PassLoss(targs.train_batches, tl.batch_id)
       IN  tl' = IF pass.raised # NoError
                 THEN Raise(tl, pass.raised, FALSE)
                 ELSE [tl EXCEPT !.pc = "test", !.batch_id = pass.batch_id,
                           !.train_loss = Append(@, pass.epoch_loss)]
    /\ events' = Append(events, Event("train", tl.epoch, None, <<>>, <<>>, <<>>))
    /\ UNCHANGED <<self, targs>>
    /\ TrainOnly

\* lines 36-73 with state = "test"
TestPass ==
    /\ tl.pc = "test"
    /\ LET pass == PassLoss(targs.test_batches, tl.batch_id)
       IN  tl' = IF pass.raised # NoError
                 THEN Raise(tl, pass.raised, FALSE)
                 ELSE [tl EXCEPT !.pc = "checkpoint", !.batch_id = pass.batch_id,
                           !.test_loss = Append(@, pass.epoch_loss)]
    /\ events' = Append(events, Event("test", tl.epoch, None, <<>>, <<>>, <<>>))
    /\ UNCHANGED <<self, targs>>
    /\ TrainOnly

\* lines 76-85, and the step of the for statement to the next epoch
Checkpoint ==
    /\ tl.pc = "checkpoint"
    /\ events' = Append(events,
                     Event("checkpoint", tl.epoch, None,
                           CheckpointPath(targs.dataset_name, tl.epoch),
                           tl.train_loss, tl.test_loss))
    /\ tl' = [tl EXCEPT !.pc = "epoch", !.epoch = @ + 1]
    /\ UNCHANGED <<self, targs>>
    /\ TrainOnly

\* lines 88-92: pandas refuses columns of different lengths
Report ==
    /\ tl.pc = "epoch"
    /\ tl.epoch >= targs.n_epochs
    /\ IF Len(tl.train_loss) = targs.n_epochs /\ Len(tl.test_loss) = targs.n_epochs
       THEN /\ events' = Append(events, Event("report", targs.n_epochs, None, <<>>,
                                              tl.train_loss, tl.test_loss))
            /\ tl' = [tl EXCEPT !.pc = "done"]
       ELSE /\ tl' = Raise(tl, "ValueError", TRUE)
            /\ UNCHANGED events
    /\ UNCHANGED <<self, targs>>
    /\ TrainOnly

\* a collaborator raises during a pass, while the checkpoint is saved or
\* while the report is written: the exception leaves train_triplet
CollaboratorRaises ==
    /\ tl.pc \in {"train", "test", "checkpoint"}
       \/ (tl.pc = "epoch" /\ tl.epoch >= targs.n_epochs)
    /\ tl' = Raise(tl, "Exception", TRUE)
    /\ UNCHANGED <<self, targs, events>>
    /\ TrainOnly

NextTrain ==
    \/ Setup
    \/ EpochBegin
    \/ EpochBeginRefresh
    \/ TrainPass
    \/ TestPass
    \/ Checkpoint
    \/ Report
    \/ CollaboratorRaises

SpecTrain == InitTrain /\ [][NextTrain]_vars

(***************************************************************************)
(* Claims about MolDatasetTriplet, checked under Spec.                     *)
(***************************************************************************)
\* the label counts of the input dataset
n0 == Count(args.dc_dataset.y, 0)

n1 == Count(args.dc_dataset.y, 1)

Constructed == pc \in {"ready", "returned"}

Abs(x) == IF x < 0 THEN -x ELSE x

GetItemReturned == pc = "returned" /\ call.op = "__getitem__"

\* C2: on a dataset built with is_training = true and use_fixed_triplets =
\* false (no cache), get(i) succeeds for every index and returns the anchor's
\* features and label with a positive of the anchor's label and a negative of
\* the other label.
C2_TrainingGetSamples ==
    (/\ GetItemReturned
     /\ self.train = 1
     /\ ~Truthy(self.use_fixed_triplets)
     /\ ~self.has_fixed_triplets
     /\ Len(self.indices_0) > 0
     /\ Len(self.indices_1) > 0)
    => /\ call.raised = NoError
       /\ call.value[1] = At(self.X, call.id0)
       /\ call.value[4] = At(self.y, call.id0)
       /\ \E p \in Range(PositivePartition(self, call.value[4])) :
              call.value[2] = At(self.X, p)
       /\ \E n \in Range(NegativePartition(self, call.value[4])) :
              call.value[3] = At(self.X, n)

\* C3: in fixed-triplet mode get(i) returns, without error, row i of the
\* cache: (features[i], features[positive_indices[i]],
\* features[negative_indices[i]], the cache's label value).
C3_FixedGetReturnsRow ==
    (/\ GetItemReturned
     /\ Truthy(self.use_fixed_triplets)
     /\ self.has_fixed_triplets)
    => /\ call.raised = NoError
       /\ call.value = <<At(self.X, call.id0),
                         At(self.X, At(gen.positive_indices, call.id0)),
                         At(self.X, At(gen.negative_indices, call.id0)),
                         self.fixed_triplets[4].v>>

\* C5: constructing with oversample = true and use_fixed_triplets = true
\* raises the configuration error, whatever is_training, the seed and the
\* store are, and leaves no partitions and no cache.
C5_ConfigErrorRaised ==
    (pc # "new" /\ args.oversample = 1 /\ args.use_fixed_triplets = 1)
    => /\ pc = "raised"
       /\ call.op = "__init__"
       /\ call.raised = "Exception"
       /\ ~self.has_indices
       /\ ~self.has_fixed_triplets

C5_Witness ==
    /\ pc = "raised"
    /\ call.raised = "Exception"
    /\ args.oversample = 1
    /\ args.use_fixed_triplets = 1
    /\ args.train = 1
    /\ args.seed_fixed_triplets # None
    /\ n0 >= 1
    /\ n1 >= 1

\* C6: constructing with oversample = true and use_fixed_triplets = false on
\* a store of n0 zero-labelled and n1 >= 1 one-labelled records yields a
\* store of n0 + m*n1 records, m = floor(n0 / n1): the zero-labelled records
\* followed by m copies of the one-labelled ones, with partitions of sizes n0
\* and m*n1.
\* (Stated for the stores DeepChem supplies, ids in a numpy array, and a
\* multiplier of at least 1, as in the claim's example of 3 + 1 records.)
C6_OversampleBuildsStore ==
    (/\ pc # "new"
     /\ args.oversample = 1
     /\ args.use_fixed_triplets = 0
     /\ args.dc_dataset.ids_kind = "ndarray"
     /\ n1 >= 1
     /\ n0 >= n1)
    => /\ Constructed
       /\ Len(self.X) = n0 + (n0 \div n1) * n1
       /\ Len(self.y) = Len(self.X)
       /\ Len(self.smiles) = Len(self.X)
       /\ self.y = Block(n0, (n0 \div n1) * n1)
       /\ Len(self.indices_0) = n0
       /\ Len(self.indices_1) = (n0 \div n1) * n1

Oversampled ==
    Constructed /\ args.oversample = 1 /\ args.use_fixed_triplets = 0

WithLabel(label) == {i \in 0..(Len(self.y) - 1) : At(self.y, i) = label}

\* C8: with both partitions non-empty, the positive index drawn for a record
\* i, in get(i) or while the fixed cache is generated, is the index of a
\* record with i's label (i itself included), and the negative index that of
\* a record with the other label; the triplet holds their features.
C8_DrawsRespectLabels ==
    /\ (/\ GetItemReturned
        /\ call.raised = NoError
        /\ call.positive_index # None)
       => /\ call.positive_index \in WithLabel(At(self.y, call.id0))
          /\ call.negative_index \in WithLabel(1 - At(self.y, call.id0))
          /\ call.value[2] = At(self.X, call.positive_index)
          /\ call.value[3] = At(self.X, call.negative_index)
    /\ (Constructed /\ gen.done)
       => /\ Len(gen.positive_indices) = Len(self.y)
          /\ Len(gen.negative_indices) = Len(self.y)
          /\ \A i \in 0..(Len(self.y) - 1) :
               /\ At(gen.positive_indices, i) \in WithLabel(At(self.y, i))
               /\ At(gen.negative_indices, i) \in WithLabel(1 - At(self.y, i))
          /\ self.has_fixed_triplets
          /\ self.fixed_triplets[2].v = Take(self.X, gen.positive_indices)
          /\ self.fixed_triplets[3].v = Take(self.X, gen.negative_indices)

C8_Witness ==
    /\ GetItemReturned
    /\ call.raised = NoError
    /\ call.positive_index = call.id0
    /\ call.id0 > 0
    /\ gen.done
    /\ Len(self.y) >= 3
    /\ \E i \in 0..(Len(self.y) - 1) : At(gen.positive_indices, i) # i

BothLabels(dc_ds) == Count(dc_ds.y, 0) > 0 /\ Count(dc_ds.y, 1) > 0

\* an evaluation dataset as the claim describes it
FixedEvalDataset(ds) ==
    /\ ds.train = 0
    /\ Truthy(ds.use_fixed_triplets)
    /\ ds.seed_fixed_triplets = 123
    /\ Truthy(ds.oversample)
    /\ ds.has_fixed_triplets

\* C1: with a splitter and triplet mode on, get_dataset returns three triplet
\* datasets; validation and test are built with is_training = false, fixed
\* triplets, seed 123 and oversample = true, and hold a fixed-triplet cache.
\* (Stated for a supported name, splits holding both labels, and training
\* flags the training constructor accepts.)
C1_ReturnsThreeTripletDatasets ==
    (/\ factory.pc = "returned"
     /\ factory.splitter
     /\ Truthy(factory.triplet_loss)
     /\ Loader(factory.dataset_name) # "none"
     /\ ~ConfigError(factory.oversample, factory.use_fixed_train_triplets)
     /\ ~Truthy(factory.oversample)
     /\ \A k \in 1..3 : BothLabels(factory.loaded[k]))
    => /\ factory.result.raised = NoError
       /\ factory.result.returns = "triplet datasets"
       /\ FixedEvalDataset(factory.result.valid_dataset)
       /\ FixedEvalDataset(factory.result.test_dataset)

(***************************************************************************)
(* Claims about train_triplet, checked under SpecTrain.                    *)
(***************************************************************************)
InEpoch == tl.pc \in {"train", "test", "checkpoint"}

FixedRun ==
    Truthy(targs.use_fixed_training_triplets) /\ targs.original_seed # None

Refreshes == SelectSeq(events, LAMBDA ev : ev.kind = "refresh")

Triangular(e) == (e * (e + 1)) \div 2

Outputs == SelectSeq(events, LAMBDA ev : ev.kind # "refresh")

\* what a run of n epochs is to do, up to its first k outputs
ExpectedKind(k) ==
    CASE k % 3 = 1 -> "train"
      [] k % 3 = 2 -> "test"
      [] OTHER -> "checkpoint"

ExpectedEpoch(k) == (k - 1) \div 3

InOrder ==
    /\ Len(Outputs) <= 3 * targs.n_epochs + 1
    /\ \A k \in 1..Len(Outputs) :
         IF k = 3 * targs.n_epochs + 1
         THEN /\ Outputs[k].kind = "report"
              /\ Outputs[k].epoch = targs.n_epochs
              /\ Len(Outputs[k].train_loss) = targs.n_epochs
              /\ Len(Outputs[k].test_loss) = targs.n_epochs
         ELSE /\ Outputs[k].kind = ExpectedKind(k)
              /\ Outputs[k].epoch = ExpectedEpoch(k)
              /\ Outputs[k].kind = "checkpoint"
                 => /\ Outputs[k].path = <<targs.dataset_name, Outputs[k].epoch>>
                    /\ Len(Outputs[k].train_loss) = Outputs[k].epoch + 1
                    /\ Len(Outputs[k].test_loss) = Outputs[k].epoch + 1

Ended == tl.pc \in {"done", "raised"}

====
